---- MODULE Spec2Model ----
(***************************************************************************)
(* The connection hub of the room-scoped relay server: SocketManager (the  *)
(* variant with awaited sends, sendWithRetry) over RoomManager.            *)
(*                                                                         *)
(* One step of the model is one turn of the Node.js event loop: an event   *)
(* handler, or the continuation of a suspended async handler, runs until   *)
(* it returns or suspends on I/O (the callback of ws.send, the 5 s send    *)
(* timeout, the 1 s retry delay).  An await that needs no I/O continues in *)
(* the same turn.                                                          *)
(***************************************************************************)
EXTENDS Integers, Sequences, FiniteSets, TLC

\* ------------------------------------------------------------- bounds
MaxConn  == 2      \* connections accepted in a run
MaxMsgs  == 2      \* inbound text frames in a run
MaxPongs == 1      \* inbound pongs in a run
MaxFired == 2      \* disconnect timers firing in a run
MaxTasks == 2      \* async handlers suspended at the same time
SendConn == 2      \* the same, for the runs with failing sends
SendMsgs == 4
SendTasks == 2
MaxFail  == 1      \* sends of a run that do not complete
LongConn == 3      \* the same, for the long runs of serial events
LongMsgs == 4
LongFired == 1
HistMsgs == 3      \* the same, for the runs from a room with an archive
HistTasks == 2
RetryMsgs == 1     \* the same, for the runs with sends failing on every pass
RetryFail == 3
RetryTasks == 2
LiveFail == 12     \* more failing passes than the sends of a run can have
BeatConn == 2      \* the same, for the runs with the heartbeat
BeatMsgs == 2
BeatPongs == 1
BeatFired == 1
BeatTicks == 2     \* heartbeat ticks in a run
JoinMsgs == 2      \* joins after the two that make the room
JoinTasks == 2     \* handlers suspended at a time, in the runs of joins
LegacyConn == 3    \* connections the legacy server accepts in a run
LegacyMsgs == 2    \* frames the legacy server receives in a run
StopConn == 2      \* the same, for the runs with a stop
StopMsgs == 2
StopFired == 1

ClientOrder == <<"A", "B">>
RoomOrder   == <<"R1", "R2">>
ClientIds == {ClientOrder[i] : i \in DOMAIN ClientOrder}
RoomIds   == {RoomOrder[i] : i \in DOMAIN RoomOrder}
None      == "none"          \* undefined
NoExpect  == [kind |-> "none", roomId |-> None, holds |-> FALSE]
NoTimer   == [t |-> 0, clientId |-> None, due |-> 0, initial |-> FALSE, old |-> FALSE]
NoFrame   == [t |-> 0, n |-> 0, m |-> [raw |-> ""], roomId |-> None]
Started   == [heartbeatInterval |-> TRUE, listening |-> TRUE]
LegacyStarted == [clients |-> <<>>, ws |-> <<>>, sent |-> <<>>,
                  last |-> [id |-> 0, data |-> ""], nth |-> 0]

\* ---------------------------------------------------- program constants
heartbeatIntervalTime == 30000
heartbeatTimeoutTime  == 10000
maxRetries            == 3
HistoryLimit          == 100

VARIABLES
    clients,    \* SocketManager.clients: clientId -> connection holding the Client (0: no entry)
    rooms,      \* RoomManager.rooms, in insertion order: <<[id, clients, history]>>
    conn,       \* per accepted connection: the ws and the Client object made for it
    sent,       \* per connection: the frames written to the socket, as the peer reads
                \* them: those of the last step, or all of them (budget.record)
    timers,     \* pending setTimeout(handleDisconnection) timers, in arming order
    tasks,      \* async handlers suspended on I/O, in order of suspension
    last,       \* the inbound text frame handled last: [t, n, m, roomId], the n-th of
                \* the run, roomId the room the sending session was a member of
    fired,      \* the disconnect timer that fired in the last step
    now,        \* Date.now(): the time passes as the disconnect timers come due
    left,       \* clientId -> the room its session was in when its close was handled
    server,     \* whether the heartbeat interval is set, and the listener is open
    budget,     \* what is left of the run's bounds
    legacy      \* the legacy server: its clients Map, their transports, the frames sent

hub  == <<clients, rooms, conn, sent, timers, tasks, last, fired, now, left, server, budget>>
vars == <<clients, rooms, conn, sent, timers, tasks, last, fired, now, left, server, budget,
          legacy>>

\* ------------------------------------------------------------ helpers
Range(f) == {f[i] : i \in DOMAIN f}

Index(seq, x) ==
    IF \E i \in DOMAIN seq : seq[i] = x
    THEN CHOOSE i \in DOMAIN seq : seq[i] = x /\ \A j \in 1..(i - 1) : seq[j] # x
    ELSE 0

Remove(seq, i) == SubSeq(seq, 1, i - 1) \o SubSeq(seq, i + 1, Len(seq))

\* =============================================================== RoomManager
RoomIndex(rs, roomId) ==
    IF \E i \in DOMAIN rs : rs[i].id = roomId
    THEN CHOOSE i \in DOMAIN rs : rs[i].id = roomId
    ELSE 0

createRoom(rs, roomId) ==
    IF RoomIndex(rs, roomId) # 0 THEN rs
    ELSE Append(rs, [id |-> roomId, clients |-> <<>>, history |-> <<>>])

deleteRoom(rs, roomId) ==
    IF RoomIndex(rs, roomId) = 0 THEN rs ELSE Remove(rs, RoomIndex(rs, roomId))

addClientToRoom(rs, roomId, clientId) ==
    LET rs1 == createRoom(rs, roomId)
        i   == RoomIndex(rs1, roomId)
    IN  IF clientId \in Range(rs1[i].clients) THEN rs1
        ELSE [rs1 EXCEPT ![i].clients = Append(@, clientId)]

\* removeClientFromRoom without the deletion of the emptied room
removeClientKeepRoom(rs, roomId, clientId) ==
    LET i == RoomIndex(rs, roomId)
    IN  IF i = 0 THEN rs
        ELSE IF clientId \notin Range(rs[i].clients) THEN rs
        ELSE [rs EXCEPT ![i].clients = Remove(@, Index(@, clientId))]

\* a removal that deletes the room when the client is not one of its members
removeClientOrRoom(rs, roomId, clientId) ==
    LET i == RoomIndex(rs, roomId)
    IN  IF i = 0 THEN rs
        ELSE LET others == SelectSeq(rs[i].clients, LAMBDA c : c # clientId)
             IN  IF Len(others) = 0 \/ Len(others) = Len(rs[i].clients)
                 THEN deleteRoom(rs, roomId)
                 ELSE [rs EXCEPT ![i].clients = others]

removeClientFromRoom(rs, roomId, clientId) ==
    LET i == RoomIndex(rs, roomId)
    IN  IF i = 0 THEN rs
        ELSE IF clientId \notin Range(rs[i].clients) THEN rs
        ELSE LET others == Remove(rs[i].clients, Index(rs[i].clients, clientId))
             IN  IF Len(others) = 0 THEN deleteRoom(rs, roomId)
                 ELSE [rs EXCEPT ![i].clients = others]

getClientsInRoom(rs, roomId) ==
    IF RoomIndex(rs, roomId) = 0 THEN <<>> ELSE rs[RoomIndex(rs, roomId)].clients

getRoomUserCount(rs, roomId) ==
    IF RoomIndex(rs, roomId) = 0 THEN 0 ELSE Len(rs[RoomIndex(rs, roomId)].clients)

\* addMessageToHistory without the cap
addMessageNoCap(rs, roomId, message) ==
    LET i == RoomIndex(rs, roomId)
    IN  IF i = 0 THEN rs ELSE [rs EXCEPT ![i].history = Append(@, message)]

\* addMessageToHistory dropping the new message, not the oldest, at the cap
addMessageDropNew(rs, roomId, message) ==
    LET i == RoomIndex(rs, roomId)
    IN  IF i = 0 THEN rs
        ELSE [rs EXCEPT ![i].history = IF Len(@) >= HistoryLimit THEN @ ELSE Append(@, message)]

addMessageToHistory(rs, roomId, message) ==
    LET i == RoomIndex(rs, roomId)
    IN  IF i = 0 THEN rs
        ELSE LET h == Append(rs[i].history, message)
             IN  [rs EXCEPT ![i].history = IF Len(h) > HistoryLimit THEN Tail(h) ELSE h]

getRoomHistory(rs, roomId) ==
    IF RoomIndex(rs, roomId) = 0 THEN <<>> ELSE rs[RoomIndex(rs, roomId)].history

\* the ids of the rooms holding clientId, in the registry's order
RECURSIVE getRoomsByClientId(_, _)
getRoomsByClientId(rs, clientId) ==
    IF rs = <<>> THEN <<>>
    ELSE (IF clientId \in Range(Head(rs).clients) THEN <<Head(rs).id>> ELSE <<>>)
         \o getRoomsByClientId(Tail(rs), clientId)

\* ============================================================= SocketManager
OPEN    == "OPEN"
CLOSING == "CLOSING"
CLOSED  == "CLOSED"

\* The outcome of one ws.send(message, cb) as sendWithRetry sees it:
\*   ok    written to the socket, cb() before the timeout
\*   err   not written, cb(error) before the timeout
\*   late  written to the socket, but no cb within the timeout
\*   lost  not written, and no cb within the timeout
Outcomes  == {"ok", "err", "late", "lost"}
Written   == {"ok", "late"}
CalledBack == {"ok", "err"}

\* the model's variables as one record, for the handlers to transform
Cur ==
    [clients |-> clients, rooms |-> rooms, conn |-> conn,
     sent |-> IF budget.record THEN sent ELSE [t \in DOMAIN sent |-> <<>>],
     timers |-> timers, tasks |-> tasks, last |-> last, fired |-> NoTimer, now |-> now,
     left |-> left, server |-> server, budget |-> budget]

\* Client, as handleConnection makes it for a new ws (joins: the joins handled from it)
newClient(clientId, color, lastActive, expect) ==
    [clientId |-> clientId, readyState |-> OPEN, listening |-> FALSE,
     roomId |-> None, x |-> 0, y |-> 0, color |-> color, lastActive |-> lastActive,
     expect |-> expect, joins |-> 0]

\* a suspended handler: where it continues (pc, after), its closure (t, clientId,
\* roomId, rest, rooms) and the sendWithRetry call it awaits (ws, frame, retries)
Task(pc, after, t, clientId) ==
    [pc |-> pc, after |-> after, t |-> t, clientId |-> clientId, roomId |-> None,
     ws |-> 0, frame |-> <<>>, rest |-> <<>>, rooms |-> <<>>,
     retries |-> 0, wait |-> "cb", out |-> "ok"]

\* ws.terminate()
terminate(readyState) == IF readyState = CLOSED THEN CLOSED ELSE CLOSING

\* clearTimeout(heartbeatTimeout): only the timer armed at admission is held
clearTimeout(s, t) ==
    [s EXCEPT !.timers = SelectSeq(@, LAMBDA tm : ~(tm.t = t /\ tm.initial))]

\* an event of connection t has been handled: the timers t armed before are older
Handled(s, t) ==
    [s EXCEPT !.timers =
        [i \in DOMAIN @ |-> IF @[i].t = t THEN [@[i] EXCEPT !.old = TRUE] ELSE @[i]]]

\* setTimeout(() => handleDisconnection(clientId), heartbeatTimeoutTime)
setTimeout(s, t, clientId, initial) ==
    LET s1 == Handled(s, t)
    IN  [s1 EXCEPT !.timers =
            Append(@, [t |-> t, clientId |-> clientId, due |-> s.now + heartbeatTimeoutTime,
                       initial |-> initial, old |-> FALSE])]

\* the handlers that do nothing more once the send they await has returned
Leaf == {"welcome", "error"}

\* ws.send(message, cb), and the handler suspends on Promise.race (a handler that
\* has nothing left to do after a send that completes is not kept)
wsSend(s, k, o) ==
    [s EXCEPT !.sent[k.ws] = IF o \in Written THEN Append(@, k.frame) ELSE @,
              !.tasks = IF o = "ok" /\ k.pc \in Leaf THEN @
                        ELSE Append(@, [k EXCEPT !.wait = "cb", !.out = o]),
              !.budget.fail = IF o = "ok" THEN @ ELSE @ - 1]

Eligible(s, clientId) ==
    /\ s.clients[clientId] # 0
    /\ s.conn[s.clients[clientId]].readyState = OPEN

\* the first position of rest whose client the loop sends to (0: none)
FirstEligible(s, rest, senderId) ==
    IF \E i \in DOMAIN rest : rest[i] # senderId /\ Eligible(s, rest[i])
    THEN CHOOSE i \in DOMAIN rest :
            /\ rest[i] # senderId /\ Eligible(s, rest[i])
            /\ \A j \in 1..(i - 1) : ~(rest[j] # senderId /\ Eligible(s, rest[j]))
    ELSE 0

RECURSIVE Continue(_, _, _)
RECURSIVE sendWithRetry(_, _, _)
RECURSIVE countLoop(_, _, _)
RECURSIVE relayLoop(_, _, _)

\* one pass of sendWithRetry's loop, from its readyState test on
sendWithRetry(s, k, o) ==
    IF s.conn[k.ws].readyState # OPEN
    THEN Continue(s, k, o)                 \* return false
    ELSE wsSend(s, k, o)

\* sendWelcomeMessage
sendWelcomeMessage(s, clientId, k, o) ==
    LET u == s.clients[clientId]
    IN  IF u = 0 \/ s.conn[u].readyState # OPEN THEN s
        ELSE sendWithRetry(s,
                [k EXCEPT !.pc = "welcome", !.ws = u, !.retries = 0,
                          !.frame = [type |-> "welcome", clientId |-> clientId,
                                     state |-> [x |-> s.conn[u].x, y |-> s.conn[u].y,
                                                color |-> s.conn[u].color,
                                                lastActive |-> s.conn[u].lastActive]]], o)

\* handleConnection from clients.set on
admit(s, k, o) ==
    LET s1 == [s EXCEPT !.clients[k.clientId] = k.t, !.conn[k.t].listening = TRUE]
        s2 == setTimeout(s1, k.t, k.clientId, TRUE)
    IN  sendWelcomeMessage(s2, k.clientId, k, o)

\* what follows broadcastRoomUserCount in the handler that awaited it
afterCount(s, k, o) ==
    CASE k.after = "conn" -> admit(s, k, o)
      [] k.after = "join" -> setTimeout([s EXCEPT !.conn[k.t].lastActive = s.now],
                                        k.t, k.clientId, FALSE)
      [] k.after = "disc" -> [s EXCEPT !.clients[k.clientId] = 0]

\* broadcastRoomUserCount's loop over its snapshot
countLoop(s, k, o) ==
    LET i == FirstEligible(s, k.rest, None)
    IN  IF i = 0 THEN afterCount(s, k, o)
        ELSE sendWithRetry(s,
                [k EXCEPT !.pc = "count", !.ws = s.clients[k.rest[i]], !.retries = 0,
                          !.rest = SubSeq(k.rest, i + 1, Len(k.rest))], o)

broadcastRoomUserCount(s, roomId, k, o) ==
    countLoop(s,
        [k EXCEPT !.roomId = roomId,
                  !.frame = [type |-> "roomUserCount", roomId |-> roomId,
                             count |-> getRoomUserCount(s.rooms, roomId)],
                  !.rest = getClientsInRoom(s.rooms, roomId)], o)

\* sendRoomHistory, then the join branch goes on to broadcastRoomUserCount
sendRoomHistory(s, clientId, roomId, k, o) ==
    LET u == s.clients[clientId]
    IN  IF u = 0 \/ s.conn[u].readyState # OPEN
        THEN broadcastRoomUserCount(s, roomId, k, o)
        ELSE sendWithRetry(s,
                [k EXCEPT !.pc = "hist", !.roomId = roomId, !.ws = u, !.retries = 0,
                          !.frame = [type |-> "roomHistory", roomId |-> roomId,
                                     history |-> getRoomHistory(s.rooms, roomId)]], o)

\* broadcastMessage's loops without the test clientId !== senderId
RECURSIVE relayLoopToAll(_, _, _)
relayLoopToAll(s, k, o) ==
    LET i == FirstEligible(s, k.rest, None)
    IN  IF i # 0
        THEN sendWithRetry(s,
                [k EXCEPT !.pc = "relay", !.ws = s.clients[k.rest[i]], !.retries = 0,
                          !.rest = SubSeq(k.rest, i + 1, Len(k.rest))], o)
        ELSE IF k.rooms # <<>>
        THEN relayLoopToAll(s,
                [k EXCEPT !.rooms = Tail(k.rooms),
                          !.rest = getClientsInRoom(s.rooms, Head(k.rooms))], o)
        ELSE setTimeout(s, k.t, k.clientId, FALSE)

\* broadcastMessage's loops: the members left of this room, then the rooms left
\* (a room that is gone, getRoomById(roomId) undefined, has no members to send to)
relayLoop(s, k, o) ==
    LET i == FirstEligible(s, k.rest, k.clientId)
    IN  IF i # 0
        THEN sendWithRetry(s,
                [k EXCEPT !.pc = "relay", !.ws = s.clients[k.rest[i]], !.retries = 0,
                          !.rest = SubSeq(k.rest, i + 1, Len(k.rest))], o)
        ELSE IF k.rooms # <<>>
        THEN relayLoop(s,
                [k EXCEPT !.rooms = Tail(k.rooms),
                          !.rest = getClientsInRoom(s.rooms, Head(k.rooms))], o)
        ELSE setTimeout(s, k.t, k.clientId, FALSE)

broadcastMessage(s, senderId, message, k, o) ==
    LET u  == s.clients[senderId]
        rs == getRoomsByClientId(s.rooms, senderId)
    IN  IF u = 0 \/ rs = <<>>
        THEN setTimeout(s, k.t, k.clientId, FALSE)
        ELSE relayLoop(s,
                [k EXCEPT !.rooms = rs, !.rest = <<>>,
                          !.frame = message @@
                                    [sender |-> [id |-> senderId, color |-> s.conn[u].color],
                                     timestamp |-> s.now]], o)

\* the handler goes on after the sendWithRetry it awaited has returned
Continue(s, k, o) ==
    CASE k.pc = "count"   -> countLoop(s, k, o)
      [] k.pc = "relay"   -> relayLoop(s, k, o)
      [] k.pc = "hist"    -> broadcastRoomUserCount(s, k.roomId, k, o)
      [] k.pc = "welcome" -> s
      [] k.pc = "error"   -> s

\* a handleDisconnection that takes a client it does not find out of its rooms
handleDisconnectionOfAbsent(s, clientId, o) ==
    LET u  == s.clients[clientId]
        rs == getRoomsByClientId(s.rooms, clientId)
        out[i \in 0..Len(rs)] ==
            IF i = 0 THEN s.rooms ELSE removeClientFromRoom(out[i - 1], rs[i], clientId)
    IN  IF u = 0 THEN [s EXCEPT !.rooms = out[Len(rs)]]
        ELSE IF s.conn[u].roomId # None
        THEN broadcastRoomUserCount(
                [s EXCEPT !.rooms = removeClientFromRoom(@, s.conn[u].roomId, clientId)],
                s.conn[u].roomId, Task("count", "disc", 0, clientId), o)
        ELSE [s EXCEPT !.clients[clientId] = 0]

\* handleDisconnection
handleDisconnection(s, clientId, o) ==
    LET u == s.clients[clientId]
    IN  IF u = 0 THEN s
        ELSE IF s.conn[u].roomId # None
        THEN broadcastRoomUserCount(
                [s EXCEPT !.rooms = removeClientFromRoom(@, s.conn[u].roomId, clientId)],
                s.conn[u].roomId, Task("count", "disc", 0, clientId), o)
        ELSE [s EXCEPT !.clients[clientId] = 0]

\* handleConnection up to clients.set (s.conn[t] is the new ws and its Client)
handleConnection(s, t, clientId, o) ==
    LET u == s.clients[clientId]
        previousRoomId == IF u # 0 THEN s.conn[u].roomId ELSE None
        s1 == IF u = 0 THEN s
              ELSE [s EXCEPT !.conn[u].readyState = terminate(@),
                             !.rooms = IF previousRoomId # None
                                       THEN removeClientFromRoom(@, previousRoomId, clientId)
                                       ELSE @]
        k  == Task("count", "conn", t, clientId)
    IN  IF previousRoomId # None
        THEN broadcastRoomUserCount(
                [s1 EXCEPT !.conn[t].roomId = previousRoomId,
                           !.rooms = addClientToRoom(@, previousRoomId, clientId)],
                previousRoomId, k, o)
        ELSE admit(s1, k, o)

\* ws.ping(): a control frame
Ping == [type |-> "ping"]

\* checkHeartbeats: lastActive is too long ago for the tick at s.now
Stale(s, u) == s.now - s.conn[u].lastActive > heartbeatIntervalTime + heartbeatTimeoutTime

\* the calls handleDisconnection(clientId) of checkHeartbeats, none awaited
RECURSIVE disconnectAll(_, _, _)
disconnectAll(s, clientsToDisconnect, o) ==
    IF clientsToDisconnect = <<>> THEN s
    ELSE disconnectAll(
            handleDisconnection(
                [s EXCEPT !.conn[s.clients[Head(clientsToDisconnect)]].expect.holds = FALSE],
                Head(clientsToDisconnect), o),
            Tail(clientsToDisconnect), o)

\* checkHeartbeats with a scan that also drops the clients whose ws is not OPEN
checkHeartbeatsOpenOnly(s, order, o) ==
    LET dropped(c) == s.clients[c] # 0 /\ (Stale(s, s.clients[c])
                                           \/ s.conn[s.clients[c]].readyState # OPEN)
    IN  disconnectAll(s, SelectSeq(order, dropped), o)

\* checkHeartbeats, order the keys of clients in insertion order
checkHeartbeats(s, order, o) ==
    LET marked(c) == s.clients[c] # 0 /\ Stale(s, s.clients[c])
        pinged(u) == /\ s.clients[s.conn[u].clientId] = u
                     /\ ~Stale(s, u)
                     /\ s.conn[u].readyState = OPEN
        s1 == [s EXCEPT !.sent = [u \in DOMAIN @ |->
                                     IF pinged(u) THEN Append(@[u], Ping) ELSE @[u]]]
    IN  disconnectAll(s1, SelectSeq(order, marked), o)

\* closeAllConnections without clearInterval(heartbeatInterval)
closeAllButInterval(s) ==
    [s EXCEPT !.conn = [u \in DOMAIN @ |->
                           IF s.clients[@[u].clientId] = u
                           THEN [@[u] EXCEPT !.readyState = terminate(@),
                                             !.expect.holds = FALSE]
                           ELSE @[u]],
              !.clients = [c \in ClientIds |-> 0]]

\* closeAllConnections
closeAllConnections(s) ==
    [s EXCEPT !.server.heartbeatInterval = FALSE,
              !.conn = [u \in DOMAIN @ |->
                           IF s.clients[@[u].clientId] = u
                           THEN [@[u] EXCEPT !.readyState = terminate(@),
                                             !.expect.holds = FALSE]
                           ELSE @[u]],
              !.clients = [c \in ClientIds |-> 0]]

\* a join that takes the client out of the room it names when it is in it already
changeRoomLeaves(rs, from, roomId, clientId) ==
    IF from = roomId THEN removeClientFromRoom(rs, from, clientId)
    ELSE addClientToRoom(IF from # None THEN removeClientFromRoom(rs, from, clientId) ELSE rs,
                         roomId, clientId)

\* the join branch's change of the Room Registry: out of the room the session
\* is in (newClient.roomId), then into the room the message names
changeRoom(rs, from, roomId, clientId) ==
    addClientToRoom(IF from # None THEN removeClientFromRoom(rs, from, clientId) ELSE rs,
                    roomId, clientId)

\* the inbound text frames: JSON objects, and a frame that is no JSON
IsJson(m) == "type" \in DOMAIN m

\* the catch block with a handler that drops the connection on a SyntaxError
dropOnSyntaxError(s, t, k, o) ==
    [Handled(s, t) EXCEPT !.conn[t].readyState = terminate(@)]

\* the catch block of the message handler, error instanceof SyntaxError
onSyntaxError(s, t, k, o) ==
    sendWithRetry(Handled(s, t),
        [k EXCEPT !.pc = "error", !.ws = t,
                  !.frame = [type |-> "error", message |-> "Invalid JSON"]], o)

\* the join validation placed after the removal from the current room
leaveThenReject(s, t) ==
    LET roomId == s.conn[t].roomId
    IN  IF roomId = None THEN Handled(s, t)
        ELSE [Handled(s, t) EXCEPT
                 !.rooms = removeClientFromRoom(@, roomId, s.conn[t].clientId)]

\* throw new Error('roomId is required for join message'), and the catch block
\* with an error that is no SyntaxError
rejectJoin(s, t) == Handled(s, t)

\* ws.on('message') of connection t, after clearTimeout(heartbeatTimeout)
onMessage(s, t, m, o) ==
    LET clientId == s.conn[t].clientId
        k == Task("relay", "join", t, clientId)
    IN  IF ~IsJson(m)
        THEN onSyntaxError(s, t, k, o)
        ELSE IF m.type # "join" /\ getRoomsByClientId(s.rooms, clientId) = <<>>
        THEN Handled(s, t)
        ELSE IF m.type = "join"
        THEN IF "roomId" \notin DOMAIN m
             THEN rejectJoin(s, t)
             ELSE sendRoomHistory(
                    [s EXCEPT !.rooms = changeRoom(@, s.conn[t].roomId, m.roomId, clientId),
                              !.conn[t].roomId = m.roomId,
                              !.conn[t].expect.holds = FALSE,
                              !.conn[t].joins = @ + 1],
                    clientId, m.roomId, k, o)
        ELSE LET s1 == IF m.type = "draw"
                       THEN [s EXCEPT !.conn[t].x = m.x, !.conn[t].y = m.y,
                                      !.conn[t].color = IF "color" \in DOMAIN m
                                                        THEN m.color ELSE @,
                                      !.conn[t].lastActive = s.now]
                       ELSE [s EXCEPT !.conn[t].lastActive = s.now]
                 rs == getRoomsByClientId(s1.rooms, clientId)
                 addAll[i \in 0..Len(rs)] ==
                     IF i = 0 THEN s1.rooms ELSE addMessageToHistory(addAll[i - 1], rs[i], m)
             IN  broadcastMessage([s1 EXCEPT !.rooms = addAll[Len(rs)]], clientId, m, k, o)

\* a failed pass that is always followed by another pass
failedPassAgain(s, k, o) ==
    [s EXCEPT !.tasks = Append(@, [k EXCEPT !.retries = @ + 1, !.wait = "delay"])]

\* a failed pass after which the handler that awaited the send is abandoned
failedPassAborts(s, k, o) ==
    IF k.retries + 1 < maxRetries
    THEN [s EXCEPT !.tasks = Append(@, [k EXCEPT !.retries = @ + 1, !.wait = "delay"])]
    ELSE s

\* a failed pass of sendWithRetry: retries++, then the 1 s delay or return false
failedPass(s, k, o) ==
    IF k.retries + 1 < maxRetries
    THEN [s EXCEPT !.tasks = Append(@, [k EXCEPT !.retries = @ + 1, !.wait = "delay"])]
    ELSE Continue(s, k, o)

\* ------------------------------------------------------------- actions
InitWith(b) ==
    /\ clients = [c \in ClientIds |-> 0]
    /\ rooms = <<>>
    /\ conn = <<>>
    /\ sent = <<>>
    /\ timers = <<>>
    /\ tasks = <<>>
    /\ last = NoFrame
    /\ fired = NoTimer
    /\ now = 0
    /\ left = [c \in ClientIds |-> None]
    /\ server = Started
    /\ budget = b
    /\ legacy = LegacyStarted

\* the bounds of a run: connections, text frames, pongs, timers firing, failing sends
\* and suspended handlers; the events that wait until no handler is suspended; whether
\* sent keeps the frames of earlier steps; the kinds of text frames
Budget(conn_, msg_, pong_, fired_, fail_, tasks_, serial_, record_, kinds_) ==
    [conn |-> conn_, msg |-> msg_, nth |-> 0, pong |-> pong_, fired |-> fired_,
     fail |-> fail_, tasks |-> tasks_, serial |-> serial_, record |-> record_,
     kinds |-> kinds_]

Commit(s) ==
    /\ Len(s.tasks) <= s.budget.tasks
    /\ s.budget.fail >= 0
    /\ clients' = s.clients
    /\ rooms' = s.rooms
    /\ conn' = s.conn
    /\ sent' = s.sent
    /\ timers' = s.timers
    /\ tasks' = s.tasks
    /\ last' = s.last
    /\ fired' = s.fired
    /\ now' = s.now
    /\ left' = s.left
    /\ server' = s.server
    /\ budget' = s.budget
    /\ legacy' = legacy

\* the events in budget.serial are taken when no handler is suspended
Quiet(event) == event \in budget.serial => tasks = <<>>

Events == {"connect", "message", "pong", "close", "error", "timeout"}

\* Ids are opaque: a run takes them into use in the order of ClientOrder, RoomOrder
FirstUse(order, used, x) ==
    \A i \in DOMAIN order : order[i] = x => \A j \in 1..(i - 1) : order[j] \in used

JoinedRooms == {conn[t].roomId : t \in DOMAIN conn} \ {None}

\* the session of connection t is the entry of its clientId, and in the room it names
MemberRoom(t) ==
    IF /\ clients[conn[t].clientId] = t
       /\ conn[t].roomId # None
       /\ conn[t].clientId \in Range(getClientsInRoom(rooms, conn[t].roomId))
    THEN conn[t].roomId ELSE None

\* the room a new connection for clientId is expected to resume, if any (expect.holds
\* until the new session joins a room or ends by an event of its own)
Expected(clientId) ==
    IF clients[clientId] # 0 /\ MemberRoom(clients[clientId]) # None
    THEN [kind |-> "displaced", roomId |-> MemberRoom(clients[clientId]), holds |-> TRUE]
    ELSE IF left[clientId] # None
    THEN [kind |-> "reconnect", roomId |-> left[clientId], holds |-> TRUE]
    ELSE NoExpect

\* wss.on('connection'): a new ws, admitted under clientId
Connect(clientId, o) ==
    /\ server.listening
    /\ budget.conn > 0
    /\ Quiet("connect")
    /\ FirstUse(ClientOrder, {conn[t].clientId : t \in DOMAIN conn}, clientId)
    /\ LET t == Len(conn) + 1
           s == [Cur EXCEPT !.conn = Append(@, newClient(clientId, "random", now,
                                                         Expected(clientId))),
                            !.sent = Append(@, <<>>),
                            !.left[clientId] = None,
                            !.budget.conn = @ - 1]
       IN  Commit(handleConnection(s, t, clientId, o))

\* the n-th inbound text frame of a run, on connection t: JSON objects, and a frame
\* that is no JSON (the payloads are the peer's choice: they tell the frames apart)
Inbound(t, n) ==
    [join    |-> {[type |-> "join", roomId |-> r] :
                     r \in {x \in RoomIds : FirstUse(RoomOrder, JoinedRooms, x)}},
     joinBad |-> {[type |-> "join"]},
     draw    |-> {[type |-> "draw", x |-> n, y |-> t]},
     drawCol |-> {[type |-> "draw", x |-> n, y |-> t, color |-> "#ff0000"]},
     chat    |-> {[type |-> "chat", id |-> n, from |-> t]},
     raw     |-> {[raw |-> "not json"]}]

Kinds == {"join", "joinBad", "draw", "drawCol", "chat", "raw"}

Frames(t) == UNION {Inbound(t, budget.nth + 1)[kd] : kd \in budget.kinds}

\* ws.on('message')
Message(t, m, o) ==
    /\ budget.nth < budget.msg
    /\ Quiet("message")
    /\ conn[t].listening /\ conn[t].readyState = OPEN
    /\ LET s == [clearTimeout(Cur, t) EXCEPT !.last = [t |-> t, n |-> budget.nth + 1, m |-> m,
                                                      roomId |-> MemberRoom(t)],
                                             !.budget.nth = @ + 1]
       IN  Commit(onMessage(s, t, m, o))

\* ws.on('pong')
Pong(t) ==
    /\ budget.pong > 0
    /\ Quiet("pong")
    /\ conn[t].listening /\ conn[t].readyState = OPEN
    /\ Commit(setTimeout([clearTimeout(Cur, t) EXCEPT !.budget.pong = @ - 1,
                                                      !.conn[t].lastActive = now],
                         t, conn[t].clientId, FALSE))

\* the session of connection t ends by an event of t itself
OwnEnd(s, t) ==
    [s EXCEPT !.conn[t].expect.holds = FALSE,
              !.left[s.conn[t].clientId] = IF MemberRoom(t) # None THEN MemberRoom(t) ELSE @]

\* ws.on('close'): the peer closed, or the socket of a terminated ws is gone
Close(t, o) ==
    /\ conn[t].readyState # CLOSED
    /\ Quiet("close")
    /\ LET s == [Cur EXCEPT !.conn[t].readyState = CLOSED]
       IN  IF conn[t].listening
           THEN Commit(handleDisconnection(OwnEnd(clearTimeout(s, t), t), conn[t].clientId, o))
           ELSE Commit(s)

\* ws.on('error'): the ws fails and closes itself
Error(t, o) ==
    /\ conn[t].listening /\ conn[t].readyState = OPEN
    /\ Quiet("error")
    /\ LET s == [Cur EXCEPT !.conn[t].readyState = CLOSING, !.conn[t].expect.holds = FALSE]
       IN  Commit(handleDisconnection(clearTimeout(s, t), conn[t].clientId, o))

\* the oldest disconnect timer is due, and fires (all run for heartbeatTimeoutTime)
Timeout(o) ==
    /\ timers # <<>>
    /\ budget.fired > 0
    /\ Quiet("timeout")
    /\ LET tm == Head(timers)
           s  == [Cur EXCEPT !.timers = Tail(@), !.fired = tm, !.now = tm.due,
                            !.budget.fired = @ - 1,
                            !.conn[tm.t].expect.holds = FALSE]
       IN  Commit(handleDisconnection(s, tm.clientId, o))

\* the callback of ws.send arrives; callbacks of one socket arrive in send order
Callback(i, o) ==
    /\ tasks[i].wait = "cb" /\ tasks[i].out \in CalledBack
    /\ \A j \in 1..(i - 1) : ~(tasks[j].wait = "cb" /\ tasks[j].ws = tasks[i].ws)
    /\ LET s == [Cur EXCEPT !.tasks = Remove(@, i)]
       IN  IF tasks[i].out = "ok"
           THEN Commit(Continue(s, tasks[i], o))
           ELSE Commit(failedPass(s, tasks[i], o))

\* the send timeout of a pass wins the race; the timeouts expire in send order
SendTimeout(i, o) ==
    /\ tasks[i].wait = "cb" /\ tasks[i].out \notin CalledBack
    /\ \A j \in 1..(i - 1) : ~(tasks[j].wait = "cb" /\ tasks[j].out \notin CalledBack)
    /\ Commit(failedPass([Cur EXCEPT !.tasks = Remove(@, i)], tasks[i], o))

\* the retry delay is over: the next pass of sendWithRetry
Retry(i, o) ==
    /\ tasks[i].wait = "delay"
    /\ Commit(sendWithRetry([Cur EXCEPT !.tasks = Remove(@, i)], tasks[i], o))

\* the hub with every kind of event, all sends completing
Init == InitWith(Budget(MaxConn, MaxMsgs, MaxPongs, MaxFired, 0, MaxTasks, {}, TRUE, Kinds))

Next ==
    \/ \E c \in ClientIds : Connect(c, "ok")
    \/ \E t \in DOMAIN conn : \E m \in Frames(t) : Message(t, m, "ok")
    \/ \E t \in DOMAIN conn : Pong(t)
    \/ \E t \in DOMAIN conn : Close(t, "ok")
    \/ \E t \in DOMAIN conn : Error(t, "ok")
    \/ Timeout("ok")
    \/ \E i \in DOMAIN tasks : Callback(i, "ok")

Spec == Init /\ [][Next]_vars

\* joins and draws with sends that fail or time out, and no disconnect timer firing
InitSend == InitWith(Budget(SendConn, SendMsgs, 0, 0, MaxFail, SendTasks, {"connect"}, TRUE,
                            {"join", "draw"}))

\* the outcomes the next send can have
Sends == IF budget.fail > 0 THEN Outcomes ELSE {"ok"}

NextSend ==
    \/ \E c \in ClientIds, o \in Sends : Connect(c, o)
    \/ \E t \in DOMAIN conn, o \in Sends : \E m \in Frames(t) : Message(t, m, o)
    \/ \E i \in DOMAIN tasks, o \in Sends : Callback(i, o)
    \/ \E i \in DOMAIN tasks, o \in Sends : SendTimeout(i, o)
    \/ \E i \in DOMAIN tasks, o \in Sends : Retry(i, o)

SpecSend == InitSend /\ [][NextSend]_vars

\* long runs of joins and draws, each event handled to its end before the next
InitLong == InitWith(Budget(LongConn, LongMsgs, 0, LongFired, 0, 1, Events, FALSE,
                            {"join", "draw"}))

NextLong ==
    \/ \E c \in ClientIds : Connect(c, "ok")
    \/ \E t \in DOMAIN conn : \E m \in Frames(t) : Message(t, m, "ok")
    \/ Timeout("ok")
    \/ \E i \in DOMAIN tasks : Callback(i, "ok")

SpecLong == InitLong /\ [][NextLong]_vars

\* two clients in a room, one of which has sent h draws to it, and more draws and
\* chats from that one while the relays of the earlier ones are still under way
RECURSIVE Settle(_)
Settle(s) ==
    IF s.tasks = <<>> THEN s
    ELSE Settle(Continue([s EXCEPT !.tasks = Tail(@)], Head(s.tasks), "ok"))

Blank(b) ==
    [clients |-> [c \in ClientIds |-> 0], rooms |-> <<>>, conn |-> <<>>, sent |-> <<>>,
     timers |-> <<>>, tasks |-> <<>>, last |-> NoFrame, fired |-> NoTimer, now |-> 0,
     left |-> [c \in ClientIds |-> None], server |-> Started, budget |-> b]

Accepted(s, clientId) ==
    Settle(handleConnection(
        [s EXCEPT !.conn = Append(@, newClient(clientId, "random", 0, NoExpect)),
                  !.sent = Append(@, <<>>)], Len(s.conn) + 1, clientId, "ok"))

Handle(s, t, m, roomId) ==
    Settle(onMessage(
        [clearTimeout(s, t) EXCEPT !.last = [t |-> t, n |-> s.budget.nth + 1, m |-> m,
                                            roomId |-> roomId],
                                  !.budget.nth = @ + 1], t, m, "ok"))

TwoJoined(b) ==
    Handle(Handle(Accepted(Accepted(Blank(b), "A"), "B"),
                  1, [type |-> "join", roomId |-> "R1"], None),
           2, [type |-> "join", roomId |-> "R1"], None)

\* h more draws of the first client (each handled before the next is read)
RECURSIVE Drawn(_, _)
Drawn(s, h) ==
    IF h = 0 THEN s
    ELSE LET d == Handle(s, 1, [type |-> "draw", x |-> s.budget.nth + 1, y |-> 1], "R1")
         IN  IF d.budget.nth > 0 THEN Drawn(d, h - 1) ELSE d

InitHist ==
    \E h \in 0..HistoryLimit :
        LET b == Budget(0, h + 2 + HistMsgs, 0, 0, 0, HistTasks, Events \ {"message"}, TRUE,
                        {"draw", "drawCol", "chat"})
            s == Drawn(TwoJoined(b), h)
        IN  /\ clients = s.clients
            /\ rooms = s.rooms
            /\ conn = s.conn
            /\ sent = s.sent
            /\ timers = s.timers
            /\ tasks = s.tasks
            /\ last = s.last
            /\ fired = s.fired
            /\ now = s.now
            /\ left = s.left
            /\ server = s.server
            /\ budget = s.budget
            /\ legacy = LegacyStarted

NextHist ==
    \/ \E m \in Frames(1) : Message(1, m, "ok")
    \/ \E i \in DOMAIN tasks : Callback(i, "ok")

SpecHist == InitHist /\ [][NextHist]_vars

\* two clients in a room, and a message or a close while up to maxRetries passes of
\* the sends fail
InitRetryWith(fail, kinds) ==
    LET s == TwoJoined(Budget(0, 2 + RetryMsgs, 0, 0, fail, RetryTasks,
                              {}, TRUE, kinds))
    IN  /\ clients = s.clients
        /\ rooms = s.rooms
        /\ conn = s.conn
        /\ sent = s.sent
        /\ timers = s.timers
        /\ tasks = s.tasks
        /\ last = s.last
        /\ fired = s.fired
        /\ now = s.now
        /\ left = s.left
        /\ server = s.server
        /\ budget = s.budget
        /\ legacy = LegacyStarted

InitRetry == InitRetryWith(RetryFail, {"join", "draw"})

NextRetry ==
    \/ \E t \in DOMAIN conn, o \in Sends : \E m \in Frames(t) : Message(t, m, o)
    \/ \E t \in DOMAIN conn, o \in Sends : Close(t, o)
    \/ \E i \in DOMAIN tasks, o \in Sends : Callback(i, o)
    \/ \E i \in DOMAIN tasks, o \in Sends : SendTimeout(i, o)
    \/ \E i \in DOMAIN tasks, o \in Sends : Retry(i, o)

SpecRetry == InitRetry /\ [][NextRetry]_vars

\* the callback of a send or its 5 s timeout, and the end of the 1 s retry delay, come
Resumption ==
    \E i \in DOMAIN tasks, o \in Sends : Callback(i, o) \/ SendTimeout(i, o) \/ Retry(i, o)

\* the same with draws only, and any pass of any send failing
InitRetryLive == InitRetryWith(LiveFail, {"draw"})

SpecRetryLive == InitRetryLive /\ [][NextRetry]_vars /\ WF_vars(Resumption)

\* the hub with its heartbeat: the time passes as the disconnect timers and the
\* ticks of setInterval(checkHeartbeats, heartbeatIntervalTime) come due
InitBeat == InitWith(Budget(BeatConn, BeatMsgs, BeatPongs, BeatFired, 0, 2, Events, TRUE,
                            {"join", "raw"}))

NextTick == heartbeatIntervalTime * ((now \div heartbeatIntervalTime) + 1)

\* the orders the keys of clients can have been inserted in
KeyOrders ==
    {p \in [1..Cardinality(ClientIds) -> ClientIds] : \A i, j \in DOMAIN p : i # j => p[i] # p[j]}

\* nothing happens for heartbeatTimeoutTime: no timer and no tick is due by then
Elapse ==
    /\ tasks = <<>>
    /\ timers # <<>> => Head(timers).due > now + heartbeatTimeoutTime
    /\ NextTick > now + heartbeatTimeoutTime
    /\ NextTick <= BeatTicks * heartbeatIntervalTime
    /\ Commit([Cur EXCEPT !.now = @ + heartbeatTimeoutTime])

\* the heartbeat interval is due, before the disconnect timers due at the same time;
\* the sends under way have begun less than heartbeatTimeoutTime ago (their callbacks
\* come within the 5 s timeout)
Tick(order, o) ==
    /\ server.heartbeatInterval
    /\ NextTick <= BeatTicks * heartbeatIntervalTime
    /\ timers # <<>> => Head(timers).due >= NextTick
    /\ tasks # <<>> => now + heartbeatTimeoutTime >= NextTick
    /\ Commit(checkHeartbeats([Cur EXCEPT !.now = NextTick], order, o))

\* a disconnect timer is due before the next tick
TimeoutBeforeTick(o) ==
    /\ timers # <<>> /\ Head(timers).due < NextTick
    /\ Timeout(o)

NextBeat ==
    \/ \E c \in ClientIds : Connect(c, "ok")
    \/ \E t \in DOMAIN conn : \E m \in Frames(t) : Message(t, m, "ok")
    \/ \E t \in DOMAIN conn : Pong(t)
    \/ \E t \in DOMAIN conn : Error(t, "ok")
    \/ TimeoutBeforeTick("ok")
    \/ Elapse
    \/ \E order \in KeyOrders : Tick(order, "ok")
    \/ \E i \in DOMAIN tasks : Callback(i, "ok")

SpecBeat == InitBeat /\ [][NextBeat]_vars

\* the hub until and after it is stopped
InitStop == InitWith(Budget(StopConn, StopMsgs, 0, StopFired, 0, 2, Events, TRUE, {"join"}))

\* SIGINT, SIGTERM: closeAllConnections(), then server.close()
Stop ==
    /\ server.listening
    /\ Commit([closeAllConnections(Cur) EXCEPT !.server.listening = FALSE])

NextStop ==
    \/ \E c \in ClientIds : Connect(c, "ok")
    \/ \E t \in DOMAIN conn : \E m \in Frames(t) : Message(t, m, "ok")
    \/ \E t \in DOMAIN conn : Close(t, "ok")
    \/ TimeoutBeforeTick("ok")
    \/ \E order \in KeyOrders : Tick(order, "ok")
    \/ Stop
    \/ \E i \in DOMAIN tasks : Callback(i, "ok")

SpecStop == InitStop /\ [][NextStop]_vars

\* two members of a room, and the joins that follow
InitJoin ==
    LET s == TwoJoined(Budget(0, 2 + JoinMsgs, 0, 0, 0, JoinTasks, {}, TRUE, {"join"}))
    IN  /\ clients = s.clients
        /\ rooms = s.rooms
        /\ conn = s.conn
        /\ sent = s.sent
        /\ timers = s.timers
        /\ tasks = s.tasks
        /\ last = s.last
        /\ fired = s.fired
        /\ now = s.now
        /\ left = s.left
        /\ server = s.server
        /\ budget = s.budget
        /\ legacy = LegacyStarted

NextJoin ==
    \/ \E t \in DOMAIN conn : \E m \in Frames(t) : Message(t, m, "ok")
    \/ \E t \in DOMAIN conn : Close(t, "ok")
    \/ \E i \in DOMAIN tasks : Callback(i, "ok")

SpecJoin == InitJoin /\ [][NextJoin]_vars

\* ------------------------------------------------------------ legacy server
\* the text frames the legacy server receives
LegacyData == {"{\"x\":1}", "{ \"x\" : 1 }", "7", "{x:1}", ""}

\* JSON.parse: the value, or a SyntaxError
JSONparse(data) ==
    CASE data \in {"{\"x\":1}", "{ \"x\" : 1 }"} -> [ok |-> TRUE, value |-> [x |-> 1]]
      [] data = "7" -> [ok |-> TRUE, value |-> [number |-> 7]]
      [] OTHER -> [ok |-> FALSE, value |-> [error |-> "SyntaxError"]]

\* JSON.stringify
JSONstringify(value) == IF "x" \in DOMAIN value THEN "{\"x\":1}" ELSE "7"

\* a broadcast that does not leave the sender out
legacyBroadcastAll(l, id, message) ==
    [l EXCEPT !.sent = [c \in DOMAIN @ |->
                           IF c \in Range(l.clients) /\ l.ws[c].readyState = OPEN
                           THEN Append(@[c], JSONstringify(message)) ELSE @[c]]]

\* clients.forEach: client.send(JSON.stringify(message)) to every other OPEN client
legacyBroadcast(l, id, message) ==
    [l EXCEPT !.sent = [c \in DOMAIN @ |->
                           IF c \in Range(l.clients) /\ c # id /\ l.ws[c].readyState = OPEN
                           THEN Append(@[c], JSONstringify(message)) ELSE @[c]]]

\* wss.on('connection'): generateClientId, clients.set
LegacyConnect ==
    /\ Len(legacy.ws) < LegacyConn
    /\ legacy' = [legacy EXCEPT !.clients = Append(@, Len(legacy.ws) + 1),
                                !.ws = Append(@, [readyState |-> OPEN]),
                                !.sent = Append(@, <<>>)]
    /\ UNCHANGED hub

\* ws.on('message')
LegacyMessage(id, data) ==
    /\ legacy.nth < LegacyMsgs
    /\ legacy.ws[id].readyState = OPEN
    /\ LET l == [legacy EXCEPT !.nth = @ + 1, !.last = [id |-> id, data |-> data]]
           parsed == JSONparse(data)
       IN  legacy' = IF parsed.ok THEN legacyBroadcast(l, id, parsed.value) ELSE l
    /\ UNCHANGED hub

\* ws.on('error'): logged; the transport is closing
LegacyError(id) ==
    /\ legacy.ws[id].readyState = OPEN
    /\ legacy' = [legacy EXCEPT !.ws[id].readyState = CLOSING]
    /\ UNCHANGED hub

\* ws.on('close'): clients.delete
LegacyClose(id) ==
    /\ legacy.ws[id].readyState # CLOSED
    /\ legacy' = [legacy EXCEPT !.ws[id].readyState = CLOSED,
                                !.clients = SelectSeq(@, LAMBDA c : c # id)]
    /\ UNCHANGED hub

InitLegacy == InitWith(Budget(0, 0, 0, 0, 0, 0, {}, TRUE, {}))

NextLegacy ==
    \/ LegacyConnect
    \/ \E id \in DOMAIN legacy.ws, data \in LegacyData : LegacyMessage(id, data)
    \/ \E id \in DOMAIN legacy.ws : LegacyError(id)
    \/ \E id \in DOMAIN legacy.ws : LegacyClose(id)

SpecLegacy == InitLegacy /\ [][NextLegacy]_vars

\* ==================================================================== claims
Quiescent == tasks = <<>>

Members(roomId) == Range(getClientsInRoom(rooms, roomId))

IsRelay(frame) == "sender" \in DOMAIN frame

\* C1: at every quiescent state, every session of the directory whose roomId is set
\* names a room of the registry whose members contain the session's clientId
C1_SessionRoomHoldsClient ==
    Quiescent =>
        \A c \in ClientIds :
            clients[c] # 0 /\ conn[clients[c]].roomId # None
                => /\ RoomIndex(rooms, conn[clients[c]].roomId) # 0
                   /\ c \in Members(conn[clients[c]].roomId)

\* C2: at every quiescent state, every clientId in a room's members is a key of the
\* directory
C2_NoMembershipLeak ==
    Quiescent =>
        \A i \in DOMAIN rooms : \A c \in Range(rooms[i].clients) : clients[c] # 0

\* C3: for every clientId, at most one transport that is still open has handlers
\* through which the hub acts on its events
Attached(c) ==
    {t \in DOMAIN conn : conn[t].clientId = c /\ conn[t].listening /\ conn[t].readyState = OPEN}

C3_OneAttachedTransport == \A c \in ClientIds : Cardinality(Attached(c)) <= 1

\* the admitted session of connection t is in the room it was expected to resume
Resumed(t) ==
    /\ clients[conn[t].clientId] = t
    /\ conn[t].roomId = conn[t].expect.roomId
    /\ conn[t].clientId \in Members(conn[t].expect.roomId)

\* C4: a session that displaced a member of room R is in R, its clientId among R's
\* members, also after the close of the displaced transport, until it joins a room
\* itself or ends by its own close, error or timer
C4_DisplacementKeepsMembership ==
    \A t \in DOMAIN conn :
        conn[t].listening /\ conn[t].expect.kind = "displaced" /\ conn[t].expect.holds
            => Resumed(t)

\* C5: a session admitted for a clientId whose former session was a member of room R
\* when its close was handled is a member of R without sending a join
C5_ReconnectResumesRoom ==
    \A t \in DOMAIN conn :
        conn[t].listening /\ conn[t].expect.kind = "reconnect" /\ conn[t].expect.holds
            => Resumed(t)

\* C6: a disconnect timer armed by an earlier event of a connection does not fire once
\* a later message or pong of that connection has been handled
C6_EarlierTimerNeverFires == ~fired.old

\* C7: a message handled from a session that is a member of room R1 is not relayed
\* to a session that is a member of another room
C7_RoomIsolation ==
    \A u \in DOMAIN conn : \A i \in DOMAIN sent[u] :
        IsRelay(sent[u][i]) /\ last.roomId # None /\ MemberRoom(u) # None
            => MemberRoom(u) = last.roomId

\* C8: a message other than join, from a session that is a member of no room (it has
\* joined none and resumed none), is dropped: no frame is written to any connection,
\* no room changes, and the session's x, y and color stay
C8_Dropped ==
    (/\ last' # last /\ IsJson(last'.m) /\ last'.m.type # "join"
     /\ last'.roomId = None /\ conn[last'.t].roomId = None)
        => /\ sent' = sent
           /\ rooms' = rooms
           /\ conn'[last'.t].x = conn[last'.t].x
           /\ conn'[last'.t].y = conn[last'.t].y
           /\ conn'[last'.t].color = conn[last'.t].color

C8_NotInRoomIsDropped == [][C8_Dropped]_vars

\* C9: a connection is delivered at most one copy of a relayed message, also when a
\* pass of the send timed out and was retried
C9_RelayedOnce ==
    \A u \in DOMAIN conn : \A i, j \in DOMAIN sent[u] :
        IsRelay(sent[u][i]) /\ sent[u][i] = sent[u][j] => i = j

\* C10: the relays a connection is delivered from one sender are in the order the
\* sender sent them, also when a pass of a send failed or timed out and was retried
C10_SenderOrder ==
    \A u \in DOMAIN conn : \A i, j \in DOMAIN sent[u] :
        /\ IsRelay(sent[u][i]) /\ IsRelay(sent[u][j])
        /\ sent[u][i].y = sent[u][j].y
        /\ i < j
        => sent[u][i].x <= sent[u][j].x

\* C11: the handling of a message of a connection starts only when no handler of
\* an earlier message of that connection is still awaiting a send
C11_NextAfterCompletion ==
    last'.n # last.n => \A i \in DOMAIN tasks : tasks[i].t # last'.t

C11_HandlersSerialized == [][C11_NextAfterCompletion]_vars

IsHistory(frame) == frame.type = "roomHistory"

\* C12: a connection that joined a room (and resumed none) is delivered the
\* roomHistory of its join before any relay of a message of another member
C12_HistoryBeforeRelay ==
    \A u \in DOMAIN conn :
        conn[u].expect.kind = "none" =>
            \A i \in DOMAIN sent[u] :
                IsRelay(sent[u][i]) => \E j \in 1..(i - 1) : IsHistory(sent[u][j])

\* C13: a connection is delivered one roomHistory for each join handled from it, no
\* more
C13_OneHistoryPerJoin ==
    \A u \in DOMAIN conn :
        conn[u].expect.kind = "none" =>
            Cardinality({i \in DOMAIN sent[u] : IsHistory(sent[u][i])}) <= conn[u].joins

IsCount(frame, roomId) == frame.type = "roomUserCount" /\ frame.roomId = roomId

\* the sessions of the directory that are members of the room, their transports open
OpenMembers(roomId) ==
    {clients[c] : c \in {d \in Members(roomId) : Eligible(Cur, d)}}

\* C14: once the handlers have completed, every member of a room with an open
\* transport (one that joined, and resumed none) has been sent a roomUserCount of
\* the room with the number of members the room has
C14_CountSentOnChange ==
    Quiescent =>
        \A r \in DOMAIN rooms : \A u \in OpenMembers(rooms[r].id) :
            conn[u].expect.kind = "none" =>
                \E i \in DOMAIN sent[u] :
                    /\ IsCount(sent[u][i], rooms[r].id)
                    /\ sent[u][i].count = Len(rooms[r].clients)

\* the roomUserCount of the room delivered last to connection u (0: none)
LastCount(u, roomId) ==
    LET at == {i \in DOMAIN sent[u] : IsCount(sent[u][i], roomId)}
    IN  IF at = {} THEN 0
        ELSE sent[u][CHOOSE i \in at : \A j \in at : j <= i].count

\* C15: once the handlers have completed, the roomUserCount a member of a room was
\* delivered last is the number of members the room has
C15_LastCountIsActual ==
    Quiescent =>
        \A r \in DOMAIN rooms : \A u \in OpenMembers(rooms[r].id) :
            LastCount(u, rooms[r].id) # 0
                => LastCount(u, rooms[r].id) = Len(rooms[r].clients)

\* C16: every room of the registry has a member (a room without members is not in
\* the registry)
C16_RoomIffMembers == \A i \in DOMAIN rooms : rooms[i].clients # <<>>

\* a room lost its last member and is gone, while another room has members
C16_RoomDeleted ==
    /\ rooms # <<>>
    /\ \E t \in DOMAIN conn :
          conn[t].roomId # None /\ RoomIndex(rooms, conn[t].roomId) = 0

\* C17: the history of every room has at most 100 elements
C17_HistoryCapped == \A i \in DOMAIN rooms : Len(rooms[i].history) <= HistoryLimit

\* a message was archived in a room whose history was full
C17_AppendedAtCap ==
    /\ budget.nth > HistoryLimit + 2
    /\ \E i \in DOMAIN rooms : Len(rooms[i].history) = HistoryLimit

\* the number the sender gave a message
Num(m) == IF m.type = "draw" THEN m.x ELSE m.id

\* C18: the history of the room of a single sender, which has sent the messages
\* 3..n after the joins, is the last min(n - 2, 100) of them in the order sent
C18_LastOfSent ==
    \A i \in DOMAIN rooms :
        LET h == rooms[i].history
            n == budget.nth
        IN  /\ Len(h) = IF n - 2 < HistoryLimit THEN n - 2 ELSE HistoryLimit
            /\ \A j \in DOMAIN h : Num(h[j]) = n - Len(h) + j

\* the sender has sent more than 100 messages, of more than one kind
C18_MoreThanCap ==
    /\ budget.nth > HistoryLimit + 3
    /\ tasks # <<>>
    /\ \E i \in DOMAIN rooms :
          /\ Len(rooms[i].history) = HistoryLimit
          /\ rooms[i].history[HistoryLimit].type = "chat"

\* the fields of a session a message can change, and whether it is still served
Unchanged(t) ==
    /\ conn'[t].roomId = conn[t].roomId
    /\ conn'[t].x = conn[t].x
    /\ conn'[t].y = conn[t].y
    /\ conn'[t].color = conn[t].color
    /\ conn'[t].readyState = conn[t].readyState
    /\ conn'[t].listening = conn[t].listening

\* C19: a frame that is no JSON changes neither the directory, nor a room, nor the
\* sender's roomId, x, y and color; the sender, whose transport is OPEN, is written
\* the error frame "Invalid JSON", nobody else is written anything, and the
\* connection stays open and served
C19_Ignored ==
    (last'.n # last.n /\ ~IsJson(last'.m))
        => /\ clients' = clients
           /\ rooms' = rooms
           /\ Unchanged(last'.t)
           /\ sent'[last'.t] =
                  Append(sent[last'.t], [type |-> "error", message |-> "Invalid JSON"])
           /\ \A u \in DOMAIN sent : u # last'.t => sent'[u] = sent[u]

C19_InvalidJsonChangesNothing == [][C19_Ignored]_vars

\* a member of a room has sent a frame that is no JSON and has been written the error
C19_ErrorSent ==
    /\ ~IsJson(last.m) /\ last.t # 0
    /\ last.roomId # None
    /\ sent[last.t][Len(sent[last.t])] = [type |-> "error", message |-> "Invalid JSON"]
    /\ conn[last.t].readyState = OPEN

\* C20: a join without roomId changes neither the directory, nor a room (the sender
\* stays in its room, no room is created or deleted), nor the sender's roomId; no
\* frame is written to any connection, and the connection stays open and served
C20_Rejected ==
    (last'.n # last.n /\ IsJson(last'.m) /\ last'.m.type = "join"
                      /\ "roomId" \notin DOMAIN last'.m)
        => /\ clients' = clients
           /\ rooms' = rooms
           /\ Unchanged(last'.t)
           /\ sent' = sent

C20_JoinWithoutRoomIdRejected == [][C20_Rejected]_vars

\* a member of a room has sent a join without roomId and is still in its room
C20_StillMember ==
    /\ IsJson(last.m) /\ last.m.type = "join" /\ "roomId" \notin DOMAIN last.m
    /\ last.roomId # None
    /\ conn[last.t].roomId = last.roomId
    /\ conn[last.t].clientId \in Members(last.roomId)
    /\ conn[last.t].readyState = OPEN

\* the step continues the suspended handler tasks[i] and handles no other event
Resumes(i) ==
    /\ budget'.nth = budget.nth
    /\ \A t \in DOMAIN conn : conn'[t].readyState = conn[t].readyState
    /\ Len(tasks') >= Len(tasks) - 1
    /\ SubSeq(tasks', 1, Len(tasks) - 1) = Remove(tasks, i)

\* the pass of the send that tasks[i] awaits has failed
PassFailed(k) == k.wait = "cb" /\ k.out # "ok"

\* the send that tasks[i] awaits returns false when the handler is continued
ReturnsFalse(k) ==
    \/ PassFailed(k) /\ k.retries + 1 = maxRetries
    \/ k.wait = "delay" /\ conn[k.ws].readyState # OPEN

\* the next member of the snapshot of k that a loop sends to (0: none)
NextOf(k) == FirstEligible(Cur, k.rest, IF k.pc = "relay" THEN k.clientId ELSE None)

\* C21: a pass of a send that fails, and a send that returns false, remove the
\* recipient neither from the directory nor from its room; and when a send of a
\* fan-out has returned false, the frame is sent to the next member of the snapshot
C21_Contained ==
    \A i \in DOMAIN tasks :
        LET k == tasks[i]
            c == conn[k.ws].clientId
        IN  (Resumes(i) /\ (PassFailed(k) \/ ReturnsFalse(k)))
                => /\ clients'[c] = clients[c]
                   /\ \A j \in DOMAIN rooms :
                         c \in Range(rooms[j].clients) =>
                             /\ j \in DOMAIN rooms'
                             /\ rooms'[j].id = rooms[j].id
                             /\ c \in Range(rooms'[j].clients)
                   /\ (ReturnsFalse(k) /\ k.pc \in {"count", "relay"} /\ NextOf(k) # 0)
                         => LET u == clients[k.rest[NextOf(k)]]
                            IN  \/ sent'[u] = Append(sent[u], k.frame)
                                \/ \E j \in DOMAIN tasks' :
                                      /\ tasks'[j].ws = u /\ tasks'[j].frame = k.frame
                                      /\ tasks'[j].wait = "cb" /\ tasks'[j].retries = 0

C21_FailedSendIsContained == [][C21_Contained]_vars

\* the first client joins its room again; no pass of the send of the count to it has
\* written the frame, it is still in the directory and in the room, and the second
\* client has been written the count
C21_NextAttempted ==
    /\ Quiescent /\ budget.fail = 0
    /\ last.t = 1 /\ last.m = [type |-> "join", roomId |-> "R1"]
    /\ clients["A"] = 1 /\ conn[1].readyState = OPEN /\ "A" \in Members("R1")
    /\ Len(sent[1]) = 5 /\ IsHistory(sent[1][5])
    /\ Len(sent[2]) = 4 /\ IsCount(sent[2][4], "R1")

\* the tasks of tasks' that the step has suspended
Suspended == {tasks'[j] : j \in Len(tasks)..Len(tasks')}

\* the send that k awaits is over: no pass of it is under way or to come
Over(k) == \A n \in Suspended : ~(n.ws = k.ws /\ n.frame = k.frame /\ n.pc = k.pc)

\* the step does not write the frame of k to the socket of k
NotWritten(k) ==
    \A x \in (Len(sent[k.ws]) + 1)..Len(sent'[k.ws]) : sent'[k.ws][x] # k.frame

\* the passes of sendWithRetry (its result is only logged by its callers):
\* a pass that finds the transport not OPEN sends nothing and is the last; a pass
\* whose send completes is the last; a failed pass is followed by another after the
\* delay, unless it is the third, which is the last
C22_Pass ==
    \A i \in DOMAIN tasks :
        LET k == tasks[i]
        IN  Resumes(i) =>
                /\ (k.wait = "delay" /\ conn[k.ws].readyState # OPEN)
                        => NotWritten(k) /\ Over(k)
                /\ (k.wait = "delay" /\ conn[k.ws].readyState = OPEN)
                        => \/ sent'[k.ws] = Append(sent[k.ws], k.frame)
                           \/ \E n \in Suspended :
                                 n = [k EXCEPT !.wait = "cb", !.out = n.out] /\ n.out # "ok"
                /\ (k.wait = "cb" /\ k.out = "ok") => Over(k)
                /\ (PassFailed(k) /\ k.retries + 1 < maxRetries)
                        => [k EXCEPT !.retries = @ + 1, !.wait = "delay"] \in Suspended
                /\ (PassFailed(k) /\ k.retries + 1 = maxRetries)
                        => NotWritten(k) /\ Over(k)

\* C22: a send has at most maxRetries (3) passes, each as C22_Pass states, and every
\* send returns: the handlers that await one all get to their end
C22_SendTerminates ==
    /\ [](\A i \in DOMAIN tasks : tasks[i].retries < maxRetries)
    /\ [][C22_Pass]_vars
    /\ <>[](tasks = <<>>)

\* the third pass of a send has failed, and no handler is suspended any more
C22_ThreeFailed ==
    /\ Quiescent /\ budget.fail = LiveFail - maxRetries
    /\ last.t = 2 /\ last.m.type = "draw"
    /\ \A x \in DOMAIN sent[1] : ~IsRelay(sent[1][x])
    /\ conn[1].readyState = OPEN /\ clients["A"] = 1

\* C23: the frames written to the other connections when an event (a message other
\* than join) is handled are the event as it was sent, and the event as it was sent
\* is the newest of the history of the sender's room
C23_Verbatim ==
    (last'.n # last.n /\ IsJson(last'.m) /\ last'.m.type # "join")
        => /\ \A u \in DOMAIN sent \ {last'.t} :
                 \A x \in (Len(sent[u]) + 1)..Len(sent'[u]) : sent'[u][x] = last'.m
           /\ last'.roomId # None =>
                 LET h == getRoomHistory(rooms', last'.roomId)
                 IN  h # <<>> /\ h[Len(h)] = last'.m

C23_RelayIsVerbatim == [][C23_Verbatim]_vars

\* the frames the step writes to connection u
Wrote(u) == SubSeq(sent'[u], Len(sent[u]) + 1, Len(sent'[u]))

\* the rooms that hold clientId, before and after the step
SameRooms(c) ==
    {rooms'[i].id : i \in {j \in DOMAIN rooms' : c \in Range(rooms'[j].clients)}}
        = {rooms[i].id : i \in {j \in DOMAIN rooms : c \in Range(rooms[j].clients)}}

\* frame is the roomUserCount of the room of a session that this tick finds stale
DroppedCount(frame) ==
    \E d \in ClientIds :
        /\ clients[d] # 0
        /\ now' - conn[clients[d]].lastActive > heartbeatIntervalTime + heartbeatTimeoutTime
        /\ IsCount(frame, conn[clients[d]].roomId)

\* C24: at a heartbeat tick, the sessions of the directory last active more than
\* heartbeatIntervalTime + heartbeatTimeoutTime (40 000 ms) ago are removed from the
\* directory and from their room, whose open members are written a roomUserCount,
\* and are not pinged; every other session with an OPEN transport is written a ping,
\* and after it nothing but the roomUserCount of the rooms of the sessions dropped,
\* and stays as it is; every other session is written nothing and stays as it is
C24_Scan ==
    now' = NextTick =>
        \A c \in ClientIds :
            LET u == clients[c]
                roomId == conn[u].roomId
            IN  u # 0 =>
                  IF now' - conn[u].lastActive > heartbeatIntervalTime + heartbeatTimeoutTime
                  THEN /\ \/ clients'[c] = 0
                          \/ \E k \in Range(tasks') : k.after = "disc" /\ k.clientId = c
                       /\ Ping \notin Range(Wrote(u))
                       /\ roomId # None =>
                             /\ c \notin Range(getClientsInRoom(rooms', roomId))
                             /\ \A d \in Range(getClientsInRoom(rooms', roomId)) :
                                   (clients'[d] # 0 /\ conn[clients'[d]].readyState = OPEN)
                                       => \/ \E f \in Range(Wrote(clients'[d])) :
                                                 IsCount(f, roomId)
                                          \/ \E k \in Range(tasks') :
                                                 /\ k.after = "disc" /\ k.clientId = c
                                                 /\ d \in Range(k.rest)
                  ELSE /\ clients'[c] = u
                       /\ conn'[u] = conn[u]
                       /\ SameRooms(c)
                       /\ IF conn[u].readyState = OPEN
                          THEN /\ Wrote(u) # <<>> /\ Head(Wrote(u)) = Ping
                               /\ \A j \in 2..Len(Wrote(u)) : DroppedCount(Wrote(u)[j])
                          ELSE Wrote(u) = <<>>

C24_HeartbeatScan == [][C24_Scan]_vars

\* the second tick has dropped a session that the first tick had pinged
C24_DroppedAfterPing ==
    /\ now = 2 * heartbeatIntervalTime
    /\ fired = NoTimer
    /\ \E u \in DOMAIN conn :
          /\ clients[conn[u].clientId] = 0 /\ conn[u].listening
          /\ conn[u].readyState = OPEN
          /\ now - conn[u].lastActive > heartbeatIntervalTime + heartbeatTimeoutTime
          /\ sent[u][Len(sent[u])] = Ping
          /\ Cardinality({x \in DOMAIN sent[u] : sent[u][x] = Ping}) = 1

\* a session of the directory, with its transport
InDirectory(u) == u \in DOMAIN conn /\ clients[conn[u].clientId] = u

\* C25: the step that stops the hub force-closes every transport of the Session
\* Directory, empties the directory and clears the heartbeat interval; and once
\* the hub is stopped no step is a heartbeat tick: the clock never reaches the
\* next tick and no ping is written.
C25_Step ==
    /\ (server.listening /\ ~server'.listening) =>
          /\ ~server'.heartbeatInterval
          /\ \A u \in DOMAIN conn :
                InDirectory(u) => conn'[u].readyState \in {CLOSING, CLOSED}
          /\ \A c \in ClientIds : clients'[c] = 0
    /\ ~server.listening =>
          /\ now' # NextTick
          /\ \A u \in DOMAIN conn : \A j \in DOMAIN Wrote(u) : Wrote(u)[j] # Ping

C25_StopClosesDirectory == [][C25_Step]_vars

\* C25 witness: the hub is stopped before the first tick, and the two sessions
\* that were in the directory have their transports closing
C25_TwoForceClosed ==
    /\ ~server.listening
    /\ now < heartbeatIntervalTime
    /\ DOMAIN conn = {1, 2}
    /\ \A u \in {1, 2} : conn[u].readyState = CLOSING /\ conn[u].roomId # None

\* C26: once the hub is stopped and the close of every transport is handled and
\* no handler is suspended, the Room Registry is empty.
C26_RegistryDrains ==
    (/\ ~server.listening
     /\ \A u \in DOMAIN conn : conn[u].readyState = CLOSED
     /\ tasks = <<>>) => rooms = <<>>

\* the roomUserCount frame of a room, as broadcastRoomUserCount builds it now
CountFrame(roomId) ==
    [type |-> "roomUserCount", roomId |-> roomId, count |-> getRoomUserCount(rooms, roomId)]

\* this step handles a join of transport t that names the room t is in
Rejoins(t) ==
    /\ last'.n # last.n /\ last'.t = t
    /\ IsJson(last'.m) /\ last'.m.type = "join" /\ "roomId" \in DOMAIN last'.m
    /\ conn[t].roomId = last'.m.roomId
    /\ InDirectory(t) /\ conn[t].clientId \in Members(conn[t].roomId)

\* the join handler of task k goes on to the members in snapshot: the first of
\* them that is connected and OPEN is written the count, and the handler waits
\* with the members after it still to do; with none left, nothing is written
CountGoesOn(k, snapshot, frame) ==
    LET e == FirstEligible(Cur, snapshot, None)
    IN  IF e = 0 THEN \A u \in DOMAIN conn : Wrote(u) = <<>>
        ELSE /\ \A u \in DOMAIN conn :
                    Wrote(u) = IF u = clients[snapshot[e]] THEN <<frame>> ELSE <<>>
             /\ \E j \in DOMAIN tasks' :
                    /\ tasks'[j].t = k.t /\ tasks'[j].after = "join"
                    /\ tasks'[j].pc = "count" /\ tasks'[j].frame = frame
                    /\ tasks'[j].rest = SubSeq(snapshot, e + 1, Len(snapshot))

C27_Step ==
    /\ \A t \in DOMAIN conn :
          Rejoins(t) =>
              /\ Range(getClientsInRoom(rooms', conn[t].roomId)) = Members(conn[t].roomId)
              /\ \A u \in DOMAIN conn :
                    Wrote(u) = IF u = t
                               THEN <<[type |-> "roomHistory", roomId |-> conn[t].roomId,
                                       history |-> getRoomHistory(rooms', conn[t].roomId)]>>
                               ELSE <<>>
              /\ \E j \in DOMAIN tasks' :
                    /\ tasks'[j].t = t /\ tasks'[j].after = "join" /\ tasks'[j].pc = "hist"
                    /\ tasks'[j].roomId = conn[t].roomId
    /\ \A i \in DOMAIN tasks :
          LET k == tasks[i]
          IN  (Resumes(i) /\ k.after = "join") =>
                  CASE k.pc = "hist" ->
                          CountGoesOn(k, getClientsInRoom(rooms, k.roomId), CountFrame(k.roomId))
                    [] k.pc = "count" -> CountGoesOn(k, k.rest, k.frame)
                    [] OTHER -> TRUE

\* after the two joins that make room R1 of A and B, one more join of R1 by A
\* or by B, handled to its end with both transports open
C27_Once ==
    (/\ budget.nth = 3 /\ tasks = <<>>
     /\ IsJson(last.m) /\ last.m.type = "join" /\ last.m.roomId = "R1"
     /\ \A u \in DOMAIN conn : conn[u].readyState = OPEN)
    => /\ Members("R1") = {"A", "B"}
       /\ \A u \in DOMAIN conn :
             LET new == SubSeq(sent[u], Len(sent[u]) - (IF u = last.t THEN 1 ELSE 0),
                               Len(sent[u]))
             IN  /\ Len(sent[u]) = (IF u = 1 THEN 4 ELSE 3) + Len(new)
                 /\ IsCount(new[Len(new)], "R1") /\ new[Len(new)].count = 2
                 /\ u = last.t => IsHistory(new[1])

\* C27: a join that names the room the session is in leaves the room's members
\* as they were, writes one roomHistory to the joiner, and then one
\* roomUserCount to each member that is connected and open, none skipped.
C27_RejoinKeepsMembers == []C27_Once /\ [][C27_Step]_vars

\* C27 witness: A joined R1 again while B is a member, and the handler is done
C27_RejoinedAndCounted ==
    /\ budget.nth = 3 /\ tasks = <<>> /\ last.t = 1
    /\ IsJson(last.m) /\ last.m.type = "join" /\ last.m.roomId = "R1"
    /\ conn[1].joins = 2
    /\ Len(sent[1]) = 6 /\ IsHistory(sent[1][5]) /\ IsCount(sent[1][6], "R1")
    /\ Len(sent[2]) = 4 /\ IsCount(sent[2][4], "R1")

\* this step handles the close event of a listening transport t
Closes(t) == conn[t].listening /\ conn[t].readyState # CLOSED /\ conn'[t].readyState = CLOSED

\* this step is the disconnect timer at the head of the queue firing
Fires == timers # <<>> /\ budget'.fired = budget.fired - 1

\* this step handles the error event of a listening transport t
Errs(t) == conn[t].listening /\ conn[t].readyState = OPEN /\ conn'[t].readyState = CLOSING

\* handleDisconnection(clientId) ran in this step
Drops(clientId) ==
    \/ \E t \in DOMAIN conn : (Closes(t) \/ Errs(t)) /\ conn[t].clientId = clientId
    \/ Fires /\ Head(timers).clientId = clientId

C28_Step ==
    \A c \in ClientIds :
        (Drops(c) /\ clients[c] = 0) =>
            /\ clients' = clients
            /\ rooms' = rooms
            /\ sent' = sent
            /\ tasks' = tasks

\* C28: handleDisconnection of a clientId that is not in the Session Directory
\* changes neither the directory nor any room, sends nothing and suspends
\* nothing, so a second drop of a clientId leaves what the first one left.
C28_DropOfAbsentIsNoOp == [][C28_Step]_vars

\* C28 witness: A was dropped by its timer, joined R1 over the transport that
\* stayed open, and the close of that transport has been handled
C28_ClosedAfterDrop ==
    /\ DOMAIN conn = {1} /\ conn[1].clientId = "A" /\ conn[1].listening
    /\ conn[1].readyState = CLOSED
    /\ budget.fired < MaxFired
    /\ clients["A"] = 0
    /\ "A" \in Members("R1")

\* C29: in every registry the hub reaches, removeClientFromRoom of a room that
\* is not there, or of a clientId that is not a member of the room, returns the
\* registry as it is: the same rooms, each with its members and its history.
C29_RemoveOfNonMemberIsNoOp ==
    \A roomId \in RoomIds, clientId \in ClientIds :
        (RoomIndex(rooms, roomId) = 0 \/ clientId \notin Members(roomId))
            => removeClientFromRoom(rooms, roomId, clientId) = rooms

\* C29 witness: room R1 has A and a history and not B, there is no room R2, and
\* removing B from R1 and A from R2 gives the registry back
C29_NonMemberAndNoRoom ==
    /\ Members("R1") = {"A"} /\ getRoomHistory(rooms, "R1") # <<>>
    /\ RoomIndex(rooms, "R2") = 0
    /\ removeClientFromRoom(rooms, "R1", "B") = rooms
    /\ removeClientFromRoom(rooms, "R2", "A") = rooms

\* C30: in every state each clientId is a member of at most one room.
C30_AtMostOneRoom ==
    \A clientId \in ClientIds : Len(getRoomsByClientId(rooms, clientId)) <= 1

\* C31: the first frame written on a transport is the welcome message that
\* carries the clientId the connection was admitted with.
C31_WelcomeFirst ==
    \A t \in DOMAIN conn :
        sent[t] # <<>> =>
            /\ sent[t][1].type = "welcome"
            /\ sent[t][1].clientId = conn[t].clientId

\* this step handles an inbound text frame of transport t
Receives(t) == last'.n # last.n /\ last'.t = t

\* the message handler of transport t is suspended after this step
Awaits(t) == \E k \in Range(tasks') : k.t = t /\ k.after = "join"

\* C32: lastActive of a session never decreases, and the message handler of a
\* session of the directory that has come to its end in the step that received
\* the frame leaves lastActive at the time of the frame.
C32_Step ==
    \A t \in DOMAIN conn :
        /\ conn'[t].lastActive >= conn[t].lastActive
        /\ (InDirectory(t) /\ Receives(t) /\ ~Awaits(t)) => conn'[t].lastActive = now'

C32_LastActiveOnEveryFrame == [][C32_Step]_vars

\* a handleConnection is suspended between the re-adding of the membership and
\* clients.set, or a handleDisconnection between the removal from the room and
\* clients.delete
MidMutation == \E k \in Range(tasks) : k.after \in {"conn", "disc"}

\* this step handles a new event: a connection, a text frame, a pong, a
\* disconnect timer, a close or an error
NewEvent ==
    \/ budget'.conn # budget.conn
    \/ budget'.nth # budget.nth
    \/ budget'.pong # budget.pong
    \/ budget'.fired # budget.fired
    \/ \E t \in DOMAIN conn : conn'[t].readyState # conn[t].readyState

\* C33: while a handleConnection or a handleDisconnection is between its
\* changes of the Room Registry and of the Session Directory, no handler of
\* another event runs.
C33_MutationsAtomic == [][MidMutation => ~NewEvent]_vars

\* the frames written to the legacy client c in this step
LegacyWrote(c) ==
    SubSeq(legacy'.sent[c], Len(legacy.sent[c]) + 1, Len(legacy'.sent[c]))

C34_Step ==
    legacy'.nth # legacy.nth =>
        LET id   == legacy'.last.id
            data == legacy'.last.data
        IN  /\ legacy'.clients = legacy.clients
            /\ \A c \in DOMAIN legacy.ws :
                  LegacyWrote(c) =
                      IF /\ JSONparse(data).ok
                         /\ c # id /\ c \in Range(legacy.clients)
                         /\ legacy.ws[c].readyState = OPEN
                      THEN <<JSONstringify(JSONparse(data).value)>>
                      ELSE <<>>

\* C34: the legacy server sends every frame that is valid JSON to every other
\* client of its Map whose transport is OPEN, and to nobody else; a frame that
\* is not valid JSON is sent to nobody; neither changes the Map.
C34_LegacyBroadcast == [][C34_Step]_vars

\* C34 witness: of three clients the third is closing; the first sent a JSON
\* frame, which the second got, and then a frame that is no JSON
C34_BroadcastToOpenOthers ==
    /\ Len(legacy.ws) = 3 /\ legacy.clients = <<1, 2, 3>>
    /\ legacy.ws[3].readyState = CLOSING
    /\ legacy.nth = 2 /\ legacy.last = [id |-> 1, data |-> "{x:1}"]
    /\ legacy.sent = <<(<<>>), <<"{\"x\":1}">>, (<<>>)>>

\* C35: no transport is written a relay whose sender is the clientId of the
\* transport: a relay never goes to the session registered under its sender,
\* nor to another transport of that clientId.
C35_NoRelayToSender ==
    \A u \in DOMAIN conn : \A i \in DOMAIN sent[u] :
        IsRelay(sent[u][i]) => sent[u][i].sender.id # conn[u].clientId

\* C35 witness: A has two open transports, the one in the directory and one
\* dropped before, both in a room with B, and B was written a relay of A
C35_RelayedToOther ==
    /\ \E t1, t2 \in DOMAIN conn :
          /\ t1 # t2 /\ conn[t1].clientId = "A" /\ conn[t2].clientId = "A"
          /\ conn[t1].readyState = OPEN /\ conn[t2].readyState = OPEN
          /\ clients["A"] = t2
    /\ \E u \in DOMAIN conn :
          /\ conn[u].clientId = "B"
          /\ \E i \in DOMAIN sent[u] : IsRelay(sent[u][i]) /\ sent[u][i].sender.id = "A"
    /\ \A r \in DOMAIN rooms : "A" \in Range(rooms[r].clients)

\* the transport whose event this step handles: the one that closes or errs,
\* or the one whose handlers armed the disconnect timer that fires (0: none)
EventOf ==
    IF \E t \in DOMAIN conn : Closes(t) \/ Errs(t)
    THEN CHOOSE t \in DOMAIN conn : Closes(t) \/ Errs(t)
    ELSE IF Fires THEN Head(timers).t ELSE 0

\* C36: the close, the error and the disconnect timers of a transport leave the
\* session of every other transport in the directory and in its rooms.
C36_Step ==
    EventOf # 0 =>
        \A c \in ClientIds :
            (clients[c] # 0 /\ clients[c] # EventOf) =>
                /\ clients'[c] = clients[c]
                /\ SameRooms(c)

C36_OwnSessionOnly == [][C36_Step]_vars

\* the disconnect timers pending that the handlers of transport t armed
Pending(t) == SelectSeq(timers, LAMBDA tm : tm.t = t)

\* C37: for every session of the directory at most one disconnect timer is
\* pending, and none is pending for a transport whose close has been handled.
C37_OneTimerPending ==
    \A t \in DOMAIN conn :
        /\ InDirectory(t) => Len(Pending(t)) <= 1
        /\ conn[t].readyState = CLOSED => Pending(t) = <<>>

\* C38: when no handler is suspended, every transport that is not closed and
\* has its message listener registered is the transport of the directory's
\* session of its clientId, and every member of a room is in the directory.
C38_DroppedSessionIsInert ==
    tasks = <<>> =>
        /\ \A t \in DOMAIN conn :
              (conn[t].listening /\ conn[t].readyState = OPEN) => InDirectory(t)
        /\ \A r \in DOMAIN rooms : \A c \in Range(rooms[r].clients) : clients[c] # 0

\* this step accepts a connection of clientId c whose session in the directory
\* is a member of the room it names, which the new session resumes
Displaces(c) ==
    /\ budget'.conn # budget.conn
    /\ conn'[Len(conn')].clientId = c
    /\ clients[c] # 0 /\ conn[clients[c]].roomId # None
    /\ c \in Members(conn[clients[c]].roomId)

\* C39: a join that names the room the session is in, and the resumption of a
\* session by a connection with its clientId, leave the history of the room
\* as it is.
C39_Step ==
    /\ \A t \in DOMAIN conn :
          Rejoins(t) => getRoomHistory(rooms', conn[t].roomId)
                            = getRoomHistory(rooms, conn[t].roomId)
    /\ \A c \in ClientIds :
          Displaces(c) => getRoomHistory(rooms', conn[clients[c]].roomId)
                              = getRoomHistory(rooms, conn[clients[c]].roomId)

C39_HistoryKept == [][C39_Step]_vars

====
